---- MODULE Spec2Model ----
(***************************************************************************)
(* Model of the lookup benchmark of index.js: the four index strategies    *)
(* (Map, sorted array + binsearch, AVL tree, sorted array + tricksearch),  *)
(* the two generate handlers and the eight benchmark handlers.             *)
(*                                                                         *)
(* JavaScript values are tagged tuples: Num(n), Undefined, NaN, Arr(s).    *)
(* Arrays (dataset, testset, array) are sequences of integers; the cell    *)
(* read set[index] is at(set, index) and yields Undefined outside the      *)
(* array, as the language does.                                            *)
(***************************************************************************)
EXTENDS Integers, Sequences, FiniteSets, TLC

(***************************************************************************)
(* Bounds of the model.                                                    *)
(***************************************************************************)
\* longest population of the index-level specification
MaxLen == 4
\* keys of the index-level specification are -KeySpan .. KeySpan
KeySpan == 2
\* persistence writes in flight at once: a benchmark trigger is followed
\* only while fewer are in flight
MaxPending == 1
\* last reading of the clock
MaxClock == 2
\* samples of the scaled normal population are mean-Spread .. mean+Spread
Spread == 1

(***************************************************************************)
(* Configuration of index.js (lines 12-17), scaled down: the counts and    *)
(* the ranges keep their roles and their order (num_nor < num_uni).        *)
(***************************************************************************)
mean == 0
variance == 1
num_nor == 2
low == 0
high == 2
num_uni == 3

(***************************************************************************)
(* JavaScript values.                                                      *)
(***************************************************************************)
Num(n) == <<"number", n>>
Undefined == <<"undefined">>
NaN == <<"NaN">>
Arr(s) == <<"array", s>>

IsNum(v) == v[1] = "number"
IsUndefined(v) == v[1] = "undefined"

\* ToBoolean(v): undefined, NaN and 0 are falsy
Truthy(v) == IsNum(v) /\ v[2] # 0

\* a < b and a > b on numbers; any comparison with undefined or NaN is false
Lt(a, b) == IsNum(a) /\ IsNum(b) /\ a[2] < b[2]
Gt(a, b) == IsNum(a) /\ IsNum(b) /\ a[2] > b[2]

\* a == b
LooseEq(a, b) ==
    \/ IsNum(a) /\ IsNum(b) /\ a[2] = b[2]
    \/ IsUndefined(a) /\ IsUndefined(b)

\* a === b
StrictEq(a, b) ==
    \/ IsNum(a) /\ IsNum(b) /\ a[2] = b[2]
    \/ IsUndefined(a) /\ IsUndefined(b)

\* set[index]: the cell of a 0-based array, undefined outside of it
at(set, index) ==
    IF IsNum(index) /\ index[2] >= 0 /\ index[2] < Len(set)
    THEN Num(set[index[2] + 1])
    ELSE Undefined

Range(s) == {s[j] : j \in 1..Len(s)}

IsSorted(s) == \A j \in 1..(Len(s) - 1) : s[j] <= s[j + 1]

(***************************************************************************)
(* Array.prototype.sort((a, b) => a - b) on a copy of the dataset.         *)
(***************************************************************************)
compare_string(a, b) ==
    LET code(v) == IF v < 0 THEN (-v) - 100 ELSE v
    IN  code(a) - code(b)

\* the comparator (a, b) => a - b
compare(a, b) == a - b

RECURSIVE sort_insert_overwrite(_, _)
sort_insert_overwrite(s, x) ==
    IF s = <<>> THEN <<x>>
    ELSE IF compare(s[Len(s)], x) > 0
         THEN Append(sort_insert_overwrite(SubSeq(s, 1, Len(s) - 1), x), x)
         ELSE Append(s, x)

\* insert x after the last element that does not compare greater (stable)
RECURSIVE sort_insert(_, _)
sort_insert(s, x) ==
    IF s = <<>> THEN <<x>>
    ELSE IF compare(s[Len(s)], x) > 0
         THEN Append(sort_insert(SubSeq(s, 1, Len(s) - 1), x), s[Len(s)])
         ELSE Append(s, x)

RECURSIVE sort(_)
sort(s) ==
    IF s = <<>> THEN <<>>
    ELSE sort_insert(sort(SubSeq(s, 1, Len(s) - 1)), s[Len(s)])

(***************************************************************************)
(* binsearch(nums, target), index.js 143-157 and 379-393.                  *)
(***************************************************************************)
RECURSIVE binsearch_open(_, _, _, _)
binsearch_open(nums, target, lo, hi) ==
    IF lo < hi
    THEN LET mid == ((hi - lo) \div 2) + lo
             num == at(nums, Num(mid))
         IN  IF StrictEq(num, target) THEN Num(mid)
             ELSE IF Gt(num, target) THEN binsearch_open(nums, target, lo, mid - 1)
             ELSE binsearch_open(nums, target, mid + 1, hi)
    ELSE Num(-1)

\* the while (low <= high) loop
RECURSIVE binsearch_loop(_, _, _, _)
binsearch_loop(nums, target, lo, hi) ==
    IF lo <= hi
    THEN LET mid == ((hi - lo) \div 2) + lo
             num == at(nums, Num(mid))
         IN  IF StrictEq(num, target) THEN Num(mid)
             ELSE IF Gt(num, target) THEN binsearch_loop(nums, target, lo, mid - 1)
             ELSE binsearch_loop(nums, target, mid + 1, hi)
    ELSE Num(-1)

binsearch_strict(nums, target) == binsearch_open(nums, target, 0, Len(nums) - 1)

binsearch(nums, target) == binsearch_loop(nums, target, 0, Len(nums) - 1)

(***************************************************************************)
(* tricksearch(set, index, target), index.js 276-308 and 440-471.          *)
(***************************************************************************)
\* while (set[index] < target) index++
RECURSIVE trick_scan(_, _, _)
trick_scan(set, index, target) ==
    IF Lt(at(set, index), target)
    THEN trick_scan(set, Num(index[2] + 1), target)
    ELSE index

tricksearch_nocheck(set, index, target) ==
    IF ~Truthy(at(set, index)) THEN Undefined
    ELSE IF Lt(at(set, index), target)
         THEN trick_scan(set, index, target)
    ELSE IF Gt(at(set, index), target)
         THEN LET j == trick_scan(set, index, target)
              IN  IF LooseEq(at(set, j), target) THEN j ELSE Num(-1)
    ELSE Undefined

tricksearch_clamped(set, index, target) ==
    LET g == IF ~IsNum(index) \/ index[2] < 0 THEN Num(0)
             ELSE IF index[2] >= Len(set) THEN Num(Len(set) - 1)
             ELSE index
    IN  IF ~Truthy(at(set, g)) THEN Undefined
        ELSE IF Lt(at(set, g), target)
             THEN LET j == trick_scan(set, g, target)
                  IN  IF LooseEq(at(set, j), target) THEN j ELSE Num(-1)
        ELSE IF Gt(at(set, g), target)
             THEN LET j == trick_scan(set, g, target)
                  IN  IF LooseEq(at(set, j), target) THEN j ELSE Num(-1)
        ELSE Undefined

tricksearch(set, index, target) ==
    IF ~Truthy(at(set, index)) THEN Undefined
    ELSE IF Lt(at(set, index), target)
         THEN LET j == trick_scan(set, index, target)
              IN  IF LooseEq(at(set, j), target) THEN j ELSE Num(-1)
    ELSE IF Gt(at(set, index), target)
         THEN LET j == trick_scan(set, index, target)
              IN  IF LooseEq(at(set, j), target) THEN j ELSE Num(-1)
    ELSE Undefined

RECURSIVE trick_scan_reads_past(_, _, _)
trick_scan_reads_past(set, index, target) ==
    IF Lt(at(set, index), target) \/ index[2] = Len(set)
    THEN <<index>> \o trick_scan_reads_past(set, Num(index[2] + 1), target)
    ELSE <<index>>

\* the cells the scan while (set[index] < target) index++ reads
RECURSIVE trick_scan_reads(_, _, _)
trick_scan_reads(set, index, target) ==
    IF Lt(at(set, index), target)
    THEN <<index>> \o trick_scan_reads(set, Num(index[2] + 1), target)
    ELSE <<index>>

\* the cells tricksearch reads, in the order of their first read
trick_reads(set, index, target) ==
    IF ~Truthy(at(set, index)) THEN <<index>>
    ELSE IF Lt(at(set, index), target)
         THEN trick_scan_reads(set, index, target)
    ELSE <<index>>

(***************************************************************************)
(* The recursive tricksearch of the older index.js, part_000 218-239.      *)
(***************************************************************************)
\* index + 1 and index - 1 (NaN stays NaN)
plus(index, d) == IF IsNum(index) THEN Num(index[2] + d) ELSE NaN

tricksearch_rec_same(set, index, target) == tricksearch(set, index, target)

RECURSIVE tricksearch_rec(_, _, _)
tricksearch_rec(set, index, target) ==
    IF LooseEq(at(set, index), target) THEN index
    ELSE IF Lt(index, Num(0)) THEN Num(-1)
    ELSE IF Gt(index, Num(Len(set))) THEN Num(-1)
    ELSE IF Lt(at(set, index), target) /\ Gt(at(set, plus(index, 1)), target)
         THEN Num(-1)
    ELSE IF Lt(at(set, index), target)
         THEN tricksearch_rec(set, plus(index, 1), target)
    ELSE IF Gt(at(set, index), target)
         THEN tricksearch_rec(set, plus(index, -1), target)
    ELSE Undefined

\* the index of every call the recursive tricksearch makes, in order
RECURSIVE rec_visits(_, _, _)
rec_visits(set, index, target) ==
    IF LooseEq(at(set, index), target) THEN <<index>>
    ELSE IF Lt(index, Num(0)) THEN <<index>>
    ELSE IF Gt(index, Num(Len(set))) THEN <<index>>
    ELSE IF Lt(at(set, index), target) /\ Gt(at(set, plus(index, 1)), target)
         THEN <<index>>
    ELSE IF Lt(at(set, index), target)
         THEN <<index>> \o rec_visits(set, plus(index, 1), target)
    ELSE IF Gt(at(set, index), target)
         THEN <<index>> \o rec_visits(set, plus(index, -1), target)
    ELSE <<index>>

(***************************************************************************)
(* Rank guesses of the trick handlers, index.js 312 and 475.               *)
(***************************************************************************)
\* gaussian(mean, variance).cdf(x), in millionths, for the standard
\* deviation 1 of the scaled configuration
cdf(x) ==
    LET z == x - mean
    IN  IF z <= -5 THEN 0
        ELSE IF z >= 5 THEN 1000000
        ELSE CASE z = -4 -> 32
               [] z = -3 -> 1350
               [] z = -2 -> 22750
               [] z = -1 -> 158655
               [] z = 0 -> 500000
               [] z = 1 -> 841345
               [] z = 2 -> 977250
               [] z = 3 -> 998650
               [] z = 4 -> 999968

\* Math.floor(num_nor * distribution.cdf(t))
guess_normal(num, t) ==
    IF IsNum(t) THEN Num((num * cdf(t[2])) \div 1000000) ELSE NaN

\* Math.floor(num_uni * (t - low) / (high - low))
guess_uniform(num, t) ==
    IF IsNum(t) THEN Num((num * (t[2] - low)) \div (high - low)) ELSE NaN

(***************************************************************************)
(* HashIndex: a Map from key to position, index.js 83-103 and 528-548.     *)
(***************************************************************************)
EmptyMap == [k \in {} |-> 0]

\* Map.prototype.set
map_set(m, k, v) == [x \in (DOMAIN m) \cup {k} |-> IF x = k THEN v ELSE m[x]]

\* Map.prototype.has
map_has(m, k) == IsNum(k) /\ k[2] \in DOMAIN m

hash_build_step_keepfirst(m, data, j) ==
    IF data[j + 1] \in DOMAIN m THEN m ELSE map_set(m, data[j + 1], j)

\* body of the build loop: map.set(dataset[i], i)
hash_build_step(m, data, j) == map_set(m, data[j + 1], j)

\* for (let i = 0; i < dataset.length; i++) map.set(dataset[i], i)
RECURSIVE hash_build(_, _)
hash_build(data, n) ==
    IF n = 0 THEN EmptyMap
    ELSE hash_build_step(hash_build(data, n - 1), data, n - 1)

\* body of the query loop: map.has(k) ? map.get(k) : -1
hash_lookup(m, k) == IF map_has(m, k) THEN Num(m[k[2]]) ELSE Num(-1)

(***************************************************************************)
(* AVLIndex: the AVLTree of @yetzt/binary-search-tree.  A tree is <<>> or  *)
(* <<key, data, left, right>>; data is the sequence of the values inserted *)
(* under the key.                                                          *)
(***************************************************************************)
EmptyTree == <<>>

Node(k, d, l, r) == <<k, d, l, r>>

RECURSIVE height(_)
height(t) ==
    IF t = EmptyTree THEN 0
    ELSE 1 + (IF height(t[3]) >= height(t[4]) THEN height(t[3]) ELSE height(t[4]))

rightRotation(t) ==
    LET l == t[3]
    IN  Node(l[1], l[2], l[3], Node(t[1], t[2], l[4], t[4]))

leftRotation(t) ==
    LET r == t[4]
    IN  Node(r[1], r[2], Node(t[1], t[2], t[3], r[3]), r[4])

\* LL / LR / RR / RL rotations at a node whose subtrees are balanced
rebalance(t) ==
    LET bf == height(t[3]) - height(t[4])
    IN  IF bf > 1
        THEN IF height(t[3][3]) >= height(t[3][4])
             THEN rightRotation(t)
             ELSE rightRotation(Node(t[1], t[2], leftRotation(t[3]), t[4]))
        ELSE IF bf < -1
        THEN IF height(t[4][4]) >= height(t[4][3])
             THEN leftRotation(t)
             ELSE leftRotation(Node(t[1], t[2], t[3], rightRotation(t[4])))
        ELSE t

RECURSIVE avl_insert_unbalanced(_, _, _)
avl_insert_unbalanced(t, k, v) ==
    IF t = EmptyTree THEN Node(k, <<v>>, EmptyTree, EmptyTree)
    ELSE IF k = t[1] THEN Node(t[1], Append(t[2], v), t[3], t[4])
    ELSE IF k < t[1]
         THEN Node(t[1], t[2], avl_insert_unbalanced(t[3], k, v), t[4])
         ELSE Node(t[1], t[2], t[3], avl_insert_unbalanced(t[4], k, v))

\* AVLTree.prototype.insert(key, value)
RECURSIVE avl_insert(_, _, _)
avl_insert(t, k, v) ==
    IF t = EmptyTree THEN Node(k, <<v>>, EmptyTree, EmptyTree)
    ELSE IF k = t[1] THEN Node(t[1], Append(t[2], v), t[3], t[4])
    ELSE IF k < t[1]
         THEN rebalance(Node(t[1], t[2], avl_insert(t[3], k, v), t[4]))
         ELSE rebalance(Node(t[1], t[2], t[3], avl_insert(t[4], k, v)))

\* AVLTree.prototype.search(key): the data stored under the key, or []
RECURSIVE avl_search(_, _)
avl_search(t, k) ==
    IF t = EmptyTree \/ ~IsNum(k) THEN <<>>
    ELSE IF k[2] = t[1] THEN t[2]
    ELSE IF k[2] < t[1] THEN avl_search(t[3], k)
    ELSE avl_search(t[4], k)

avl_build_step_key(t, data, j) == avl_insert(t, data[j + 1], data[j + 1])

\* body of the build loop: avl.insert(dataset[i], i)
avl_build_step(t, data, j) == avl_insert(t, data[j + 1], j)

\* for (let i = 0; i < dataset.length; i++) avl.insert(dataset[i], i)
RECURSIVE avl_build(_, _)
avl_build(data, n) ==
    IF n = 0 THEN EmptyTree
    ELSE avl_build_step(avl_build(data, n - 1), data, n - 1)

\* body of the query loop: avl.search(k).length > 0 ? avl.search(k) : -1
avl_lookup(t, k) ==
    IF Len(avl_search(t, k)) > 0 THEN Arr(avl_search(t, k)) ELSE Num(-1)

RECURSIVE TreeKeys(_)
TreeKeys(t) ==
    IF t = EmptyTree THEN {} ELSE {t[1]} \cup TreeKeys(t[3]) \cup TreeKeys(t[4])

RECURSIVE IsBST(_)
IsBST(t) ==
    \/ t = EmptyTree
    \/ /\ \A x \in TreeKeys(t[3]) : x < t[1]
       /\ \A x \in TreeKeys(t[4]) : x > t[1]
       /\ IsBST(t[3])
       /\ IsBST(t[4])

RECURSIVE IsBalanced(_)
IsBalanced(t) ==
    \/ t = EmptyTree
    \/ /\ height(t[3]) - height(t[4]) \in {-1, 0, 1}
       /\ IsBalanced(t[3])
       /\ IsBalanced(t[4])

(***************************************************************************)
(* State.                                                                  *)
(*   dataset, testset, distribution  the globals of index.js 10-18         *)
(*   pc                              position of the running handler, or   *)
(*                                   EXITED once the process has ended     *)
(*   method, distr                   the benchmark being run               *)
(*   warm                            the index of the warm-up build        *)
(*   map, array, avl                 the index of the timed build          *)
(*   i, c                            counters of the query / control loop  *)
(*   key, guess, result              operands and outcome of the last      *)
(*                                   lookup                                *)
(*   prev, next, final               clock readings of the handler         *)
(*   setuptime, querytime            the durations the handler computes    *)
(*   tq, tc                          clock advances during the query pass  *)
(*                                   and the control pass                  *)
(*   records                         result records the running handler    *)
(*                                   has handed to the sink (data.save())  *)
(*   response                        what the last trigger was answered    *)
(*   pending                         persistence writes in flight          *)
(*   written                         outcome of the last write that ended  *)
(*   now                             the clock, (new Date()).valueOf()     *)
(*   global_i                        the property i of the global object,  *)
(*                                   which trick_uniform creates (i=0)     *)
(*   result_rec                      outcome of the recursive tricksearch  *)
(*                                   on the operands of the last lookup    *)
(*   reads                           cells the iterative tricksearch read  *)
(*   visits                          indices the recursive one was called  *)
(*                                   with                                  *)
(*   generated                       the generate handler that produced    *)
(*                                   the current dataset and testset       *)
(***************************************************************************)
VARIABLES dataset, testset, distribution, pc, method, distr, warm,
          map, array, avl, i, c, key, guess, result, records, response,
          generated, prev, next, final, setuptime, querytime, tq, tc,
          pending, written, now, result_rec, reads, visits,
          qreads, creads, clookups, global_i

vars == <<dataset, testset, distribution, pc, method, distr, warm,
          map, array, avl, i, c, key, guess, result, records, response,
          generated, prev, next, final, setuptime, querytime, tq, tc,
          pending, written, now, result_rec, reads, visits,
          qreads, creads, clookups, global_i>>

\* the sink and the clock: what the handlers do not own
env == <<pending, written, now>>

\* what the index-level specification records of one tricksearch call
probe == <<result_rec, reads, visits>>

\* what a handler has read of testset in its query pass and in its control
\* pass, and the index lookups its control pass has made
passes == <<qreads, creads, clookups>>

\* the timing locals of a handler
times == <<prev, next, final, setuptime, querytime, tq, tc>>

Methods == {"hashtable", "binarysearch", "avl", "trick"}

Distributions == {"normal", "uniform"}

\* sequences over S of length at most n
SeqsUpTo(S, n) == UNION {[1..m -> S] : m \in 0..n}

(***************************************************************************)
(* Index-level specification: one strategy is built over an arbitrary      *)
(* population, one loop iteration per step, and then queried once with an  *)
(* arbitrary key (and, for tricksearch, an arbitrary start index).         *)
(***************************************************************************)
Keys == (-KeySpan)..KeySpan

\* start indices inside and outside of the array, and NaN
Guesses == {Num(g) : g \in (-2)..(MaxLen + 1)} \cup {NaN}

InitIndex ==
    /\ dataset \in SeqsUpTo(Keys, MaxLen)
    /\ testset = <<>>
    /\ distribution = "undefined"
    /\ pc = "BUILD"
    /\ method \in Methods
    /\ distr = "none"
    /\ warm = <<>>
    /\ map = EmptyMap
    /\ array = <<>>
    /\ avl = EmptyTree
    /\ i = 0
    /\ c = 0
    /\ key = Undefined
    /\ guess = Undefined
    /\ result = Undefined
    /\ records = <<>>
    /\ response = "none"
    /\ prev = 0
    /\ next = 0
    /\ final = 0
    /\ setuptime = 0
    /\ querytime = 0
    /\ tq = 0
    /\ tc = 0
    /\ pending = 0
    /\ written = "none"
    /\ now = 0
    /\ result_rec = Undefined
    /\ reads = <<>>
    /\ visits = <<>>
    /\ qreads = <<>>
    /\ creads = <<>>
    /\ clookups = 0
    /\ global_i = Undefined
    /\ generated = "none"

\* one iteration of the Map build loop
HashBuildStep ==
    /\ pc = "BUILD" /\ method = "hashtable"
    /\ i < Len(dataset)
    /\ map' = hash_build_step(map, dataset, i)
    /\ i' = i + 1
    /\ UNCHANGED <<dataset, testset, distribution, pc, method, distr, warm,
                   array, avl, c, key, guess, result, records, response, times, env,
                   generated, probe, passes, global_i>>

\* one iteration of the AVL build loop
AvlBuildStep ==
    /\ pc = "BUILD" /\ method = "avl"
    /\ i < Len(dataset)
    /\ avl' = avl_build_step(avl, dataset, i)
    /\ i' = i + 1
    /\ UNCHANGED <<dataset, testset, distribution, pc, method, distr, warm,
                   map, array, c, key, guess, result, records, response, times, env,
                   generated, probe, passes, global_i>>

\* the build loop ends when i reaches dataset.length
BuildLoopExit ==
    /\ pc = "BUILD" /\ method \in {"hashtable", "avl"}
    /\ i = Len(dataset)
    /\ pc' = "BUILT"
    /\ UNCHANGED <<dataset, testset, distribution, method, distr, warm, map,
                   array, avl, i, c, key, guess, result, records, response, times, env,
                   generated, probe, passes, global_i>>

\* let array = sett.sort((a, b) => a - b) on the copy sett of the dataset
SortBuild ==
    /\ pc = "BUILD" /\ method \in {"binarysearch", "trick"}
    /\ array' = sort(dataset)
    /\ pc' = "BUILT"
    /\ UNCHANGED <<dataset, testset, distribution, method, distr, warm, map,
                   avl, i, c, key, guess, result, records, response, times, env,
                   generated, probe, passes, global_i>>

HashLookup ==
    /\ pc = "BUILT" /\ method = "hashtable"
    /\ \E k \in Keys :
        /\ key' = Num(k)
        /\ result' = hash_lookup(map, Num(k))
    /\ pc' = "LOOKED"
    /\ UNCHANGED <<dataset, testset, distribution, method, distr, warm, map,
                   array, avl, i, c, guess, records, response, times, env,
                   generated, probe, passes, global_i>>

BinLookup ==
    /\ pc = "BUILT" /\ method = "binarysearch"
    /\ \E k \in Keys :
        /\ key' = Num(k)
        /\ result' = binsearch(array, Num(k))
    /\ pc' = "LOOKED"
    /\ UNCHANGED <<dataset, testset, distribution, method, distr, warm, map,
                   array, avl, i, c, guess, records, response, times, env,
                   generated, probe, passes, global_i>>

AvlLookup ==
    /\ pc = "BUILT" /\ method = "avl"
    /\ \E k \in Keys :
        /\ key' = Num(k)
        /\ result' = avl_lookup(avl, Num(k))
    /\ pc' = "LOOKED"
    /\ UNCHANGED <<dataset, testset, distribution, method, distr, warm, map,
                   array, avl, i, c, guess, records, response, times, env,
                   generated, probe, passes, global_i>>

TrickLookup ==
    /\ pc = "BUILT" /\ method = "trick"
    /\ \E k \in Keys, g \in Guesses :
        /\ key' = Num(k)
        /\ guess' = g
        /\ result' = tricksearch(array, g, Num(k))
        /\ reads' = trick_reads(array, g, Num(k))
        /\ result_rec' = tricksearch_rec(array, g, Num(k))
        /\ visits' = rec_visits(array, g, Num(k))
    /\ pc' = "LOOKED"
    /\ UNCHANGED <<dataset, testset, distribution, method, distr, warm, map,
                   array, avl, i, c, records, response, times, env,
                   generated, passes, global_i>>

NextIndex ==
    \/ HashBuildStep
    \/ AvlBuildStep
    \/ BuildLoopExit
    \/ SortBuild
    \/ HashLookup
    \/ BinLookup
    \/ AvlLookup
    \/ TrickLookup

SpecIndex == InitIndex /\ [][NextIndex]_vars

\* an index in [0, N) of the array
IsIndexOf(v, set) == IsNum(v) /\ v[2] >= 0 /\ v[2] < Len(set)

\* the positions of the population that hold k (0-based)
Positions(data, k) == {j \in 0..(Len(data) - 1) : data[j + 1] = k}

Max(S) == CHOOSE x \in S : \A y \in S : y <= x

TrickLooked == pc = "LOOKED" /\ method = "trick"

NotFoundOutcomes == {Num(-1), Undefined}

(***************************************************************************)
(* Properties of the index-level specification.                            *)
(***************************************************************************)

\* C1: for a sorted array, a key that occurs in it and a start index in
\* [0, N), tricksearch returns an index that holds the key.
C1_TrickFindsPresentKey ==
    (TrickLooked /\ key[2] \in Range(array) /\ IsIndexOf(guess, array))
        => (IsIndexOf(result, array) /\ at(array, result) = key)

\* C2: for a sorted array and a key that does not occur in it, tricksearch
\* never returns an index in [0, N), whatever the start index.
C2_TrickAbsentKeyNotFound ==
    (TrickLooked /\ key[2] \notin Range(array)) => ~IsIndexOf(result, array)

\* C2 witness: an absent key, a start index inside the array below the key,
\* the scan ran over at least one cell and ended inside the array.
C2_Witness ==
    /\ TrickLooked
    /\ key[2] \notin Range(array)
    /\ IsIndexOf(guess, array)
    /\ Lt(at(array, guess), key)
    /\ IsIndexOf(trick_scan(array, guess, key), array)
    /\ result = Num(-1)

\* C3: binsearch returns -1 exactly when the key does not occur in the
\* sorted array, and otherwise an index in [0, N) that holds the key.
C3_BinsearchExact ==
    (pc = "LOOKED" /\ method = "binarysearch")
        => IF key[2] \notin Range(array)
           THEN result = Num(-1)
           ELSE IsIndexOf(result, array) /\ at(array, result) = key

\* C3 witness: a key found in an array with duplicates at an index other
\* than the first midpoint.
C3_Witness ==
    /\ pc = "LOOKED" /\ method = "binarysearch"
    /\ Len(array) >= 3
    /\ Cardinality(Range(array)) < Len(array)
    /\ IsIndexOf(result, array)
    /\ result # Num((Len(array) - 1) \div 2)

\* C4: after the Map build loop the lookup of a key yields the largest
\* position of the population that holds it, and -1 when none does.
C4_HashLastPosition ==
    (pc = "LOOKED" /\ method = "hashtable")
        => result = IF Positions(dataset, key[2]) = {}
                    THEN Num(-1)
                    ELSE Num(Max(Positions(dataset, key[2])))

\* C4 witness: a looked-up key that occurs at two positions or more.
C4_Witness ==
    /\ pc = "LOOKED" /\ method = "hashtable"
    /\ Cardinality(Positions(dataset, key[2])) >= 2
    /\ result = Num(Max(Positions(dataset, key[2])))

\* C5: the built sorted array has the N entries of the population in
\* ascending numeric order: array[i] <= array[i+1] for every i in [0, N-2].
C5_SortedAfterBuild ==
    (pc \in {"BUILT", "LOOKED"} /\ method \in {"binarysearch", "trick"})
        => (Len(array) = Len(dataset) /\ IsSorted(array))

\* C5 witness: a built array over an unsorted population with a negative
\* value and a duplicate.
C5_Witness ==
    /\ pc = "BUILT" /\ method = "binarysearch"
    /\ ~IsSorted(dataset)
    /\ \E x \in Range(dataset) : x < -1
    /\ Cardinality(Range(dataset)) < Len(dataset)
    /\ Len(array) = MaxLen

\* how often the value v occurs in the sequence s
occurrences(s, v) == Cardinality({k \in 1..Len(s) : s[k] = v})

\* C27: the sorted array a binarysearch or trick build makes is a
\* permutation of the population: it has the same length and holds every
\* value as often as the population does.
C27_ArrayIsPermutation ==
    (pc \in {"BUILT", "LOOKED"} /\ method \in {"binarysearch", "trick"})
        => /\ Len(array) = Len(dataset)
           /\ \A v \in Range(dataset) \cup Range(array) :
                  occurrences(array, v) = occurrences(dataset, v)

\* C27 witness: a trick build over an unsorted population that holds one
\* value twice; the build has moved entries.
C27_Witness ==
    /\ pc = "BUILT" /\ method = "trick"
    /\ ~IsSorted(dataset)
    /\ \E v \in Range(dataset) : occurrences(dataset, v) = 2
    /\ array # dataset
    /\ Len(array) >= 3

\* C6: after every insert of the AVL build the tree is height-balanced at
\* every node and is a binary search tree on its keys.
C6_AvlBalancedBST ==
    (method = "avl") => (IsBalanced(avl) /\ IsBST(avl))

\* C6 witness: three ascending keys have been inserted, which takes a
\* rotation to keep the height at 2.
C6_Witness ==
    /\ pc = "BUILD" /\ method = "avl"
    /\ i = 3
    /\ dataset[1] < dataset[2] /\ dataset[2] < dataset[3]
    /\ height(avl) = 2

\* C7: after the AVL build the search of a key returns exactly the positions
\* of the population that hold it, each once, and nothing when none does.
C7_AvlAllPositions ==
    (pc = "LOOKED" /\ method = "avl")
        => /\ Range(avl_search(avl, key)) = Positions(dataset, key[2])
           /\ Len(avl_search(avl, key)) = Cardinality(Positions(dataset, key[2]))
           /\ result = IF Positions(dataset, key[2]) = {}
                       THEN Num(-1)
                       ELSE Arr(avl_search(avl, key))

\* C7 witness: the search of a key held at two positions returned both.
C7_Witness ==
    /\ pc = "LOOKED" /\ method = "avl"
    /\ Cardinality(Positions(dataset, key[2])) >= 2
    /\ result[1] = "array"
    /\ Len(result[2]) >= 2

\* C9: a start index outside [0, N), or one that is not a number, ends
\* tricksearch with a not-found outcome (undefined or -1).
C9_OutOfRangeGuessNotFound ==
    (TrickLooked /\ ~IsIndexOf(guess, array)) => result \in NotFoundOutcomes

\* C9 witness: the key occurs in the array and the start index is N or more,
\* negative, or NaN.
C9_Witness ==
    /\ TrickLooked
    /\ key[2] \in Range(array)
    /\ guess \in {Num(Len(array)), Num(-1), NaN}
    /\ Len(array) >= 2
    /\ result = Undefined

\* C19: when the start cell already holds the key (A[g] = k, g in [0, N)),
\* tricksearch returns g, for every key value including 0.
C19_ExactHitReturnsGuess ==
    (TrickLooked /\ IsIndexOf(guess, array) /\ at(array, guess) = key)
        => result = guess

\* C20: when the start cell is above the key (A[g] > k, g in [0, N)),
\* tricksearch returns an index holding k if k occurs below g, and a
\* not-found outcome only if k does not occur in the array.
C20_OvershootRetreats ==
    (TrickLooked /\ IsIndexOf(guess, array) /\ Gt(at(array, guess), key))
        => /\ (\E j \in Positions(array, key[2]) : j < guess[2])
                => (IsIndexOf(result, array) /\ at(array, result) = key)
           /\ (result \in NotFoundOutcomes)
                => key[2] \notin Range(array)

\* C21: the recursive and the iterative tricksearch disagree: on every
\* sorted array, whenever the start cell holds the key the recursive one
\* returns the start index and the iterative one undefined, and whenever
\* the start cell is above a key that occurs in the array the recursive
\* one returns an index holding the key and the iterative one -1 or
\* undefined.
C21_VersionsDisagree ==
    /\ (TrickLooked /\ IsIndexOf(guess, array) /\ at(array, guess) = key)
            => (result_rec = guess /\ result = Undefined)
    /\ (/\ TrickLooked /\ IsIndexOf(guess, array)
        /\ Gt(at(array, guess), key) /\ key[2] \in Range(array))
            => /\ IsIndexOf(result_rec, array)
               /\ at(array, result_rec) = key
               /\ result \in NotFoundOutcomes

\* C21 witness: adjacent duplicates, the start index on the second of
\* them: the recursive tricksearch answers 1, the iterative one undefined.
C21_Witness ==
    /\ TrickLooked
    /\ Len(array) >= 2
    /\ array[1] = array[2]
    /\ guess = Num(1)
    /\ key = Num(array[2])
    /\ result_rec = Num(1)
    /\ result = Undefined
    /\ result_rec # result

\* the elements of a sequence are pairwise different
Distinct(s) == \A a, b \in 1..Len(s) : (a # b) => (s[a] # s[b])

\* C22 as claimed: for every start index g the iterative tricksearch reads
\* at most N - g + 1 cells and none past index N, and the recursive one is
\* never called twice with the same index.
C22_ScanBounded ==
    (TrickLooked /\ IsNum(guess))
        => /\ Len(reads) <= Len(array) - guess[2] + 1
           /\ \A r \in 1..Len(reads) : reads[r][2] <= Len(array)
           /\ Distinct(visits)

\* C22 amended: from a start index g in [0, N] the iterative tricksearch
\* reads the cells g, g + 1, ... in turn, at most N - g + 1 of them and
\* none past index N; from any other start index it reads the one cell at
\* g, wherever that is.  The recursive one is never called twice with the
\* same index and makes at most N + 2 calls.
C22_ScanBoundedFromInside ==
    (TrickLooked /\ IsNum(guess))
        => /\ (guess[2] >= 0 /\ guess[2] <= Len(array))
                => /\ Len(reads) >= 1
                   /\ Len(reads) <= Len(array) - guess[2] + 1
                   /\ \A r \in 1..Len(reads) :
                          reads[r] = Num(guess[2] + r - 1)
           /\ (guess[2] < 0 \/ guess[2] > Len(array)) => reads = <<guess>>
           /\ Distinct(visits)
           /\ Len(visits) >= 1
           /\ Len(visits) <= Len(array) + 2

\* C22 witness: the scan started at index 0 below every cell of an array
\* of at least two cells and read all N + 1 cells up to index N; the
\* recursive tricksearch went the same way.
C22_Witness ==
    /\ TrickLooked
    /\ guess = Num(0)
    /\ Len(array) >= 2
    /\ Len(reads) = Len(array) + 1
    /\ reads[Len(reads)] = Num(Len(array))
    /\ Len(visits) = Len(array) + 1

(***************************************************************************)
(* Handler-level specification: the generate handlers and the eight        *)
(* benchmark handlers of index.js.  A handler runs to its end before the   *)
(* next trigger is served; a benchmark handler is followed through its     *)
(* warm-up build, timed build, query pass, control pass and report.        *)
(***************************************************************************)
\* Math.round(distribution.ppf(Math.random()))
NormalSamples == (mean - Spread)..(mean + Spread)

\* parseInt(Math.random() * (high - low) + low)
UniformSamples == low..(high - 1)

\* the count the loops of a handler run to: num_nor or num_uni
num_of(d) == IF d = "normal" THEN num_nor ELSE num_uni

\* Array.prototype.slice(begin): a copy of the array from begin on
slice(s, begin) == SubSeq(s, begin + 1, Len(s))

\* the arrays generatenum_normal(mean, variance, num) can return
samples_normal_any(num) ==
    UNION {[1..n -> NormalSamples] : n \in (num - 1)..num}

samples_normal(num) == [1..num -> NormalSamples]

\* the arrays generatenum_uniform(low, high, num) can return
samples_uniform(num) == [1..num -> UniformSamples]

\* locals of a handler before it runs and after it has returned
NoLocals ==
    /\ method' = "none"
    /\ distr' = "none"
    /\ warm' = <<>>
    /\ map' = EmptyMap
    /\ array' = <<>>
    /\ avl' = EmptyTree
    /\ i' = 0
    /\ c' = 0
    /\ key' = Undefined
    /\ guess' = Undefined
    /\ result' = Undefined
    /\ records' = <<>>
    /\ prev' = 0
    /\ next' = 0
    /\ final' = 0
    /\ setuptime' = 0
    /\ querytime' = 0
    /\ tq' = 0
    /\ tc' = 0
    /\ qreads' = <<>>
    /\ creads' = <<>>
    /\ clookups' = 0

Init ==
    /\ dataset = <<>>
    /\ testset = <<>>
    /\ distribution = "undefined"
    /\ pc = "IDLE"
    /\ method = "none"
    /\ distr = "none"
    /\ warm = <<>>
    /\ map = EmptyMap
    /\ array = <<>>
    /\ avl = EmptyTree
    /\ i = 0
    /\ c = 0
    /\ key = Undefined
    /\ guess = Undefined
    /\ result = Undefined
    /\ records = <<>>
    /\ response = "none"
    /\ prev = 0
    /\ next = 0
    /\ final = 0
    /\ setuptime = 0
    /\ querytime = 0
    /\ tq = 0
    /\ tc = 0
    /\ pending = 0
    /\ written = "none"
    /\ now = 0
    /\ result_rec = Undefined
    /\ reads = <<>>
    /\ visits = <<>>
    /\ qreads = <<>>
    /\ creads = <<>>
    /\ clookups = 0
    /\ global_i = Undefined
    /\ generated = "none"

served_any == TRUE

\* a request is served when no handler is running: every handler of
\* index.js is a synchronous function, which the event loop runs to its
\* end before it takes the next request
served == pc = "IDLE"

\* GET /generatenum_normal
generatenum_normal ==
    /\ served
    /\ dataset' \in samples_normal(num_nor)
    /\ testset' \in samples_normal(num_nor)
    /\ distribution' = "gaussian"
    /\ generated' = "normal"
    /\ response' = "ok"
    /\ UNCHANGED <<pc, method, distr, warm, map, array, avl, i, c, key, guess,
                   result, records, times, env, probe, passes, global_i>>

\* GET /generatenum_uniform
generatenum_uniform ==
    /\ served
    /\ dataset' \in samples_uniform(num_uni)
    /\ testset' \in samples_uniform(num_uni)
    /\ generated' = "uniform"
    /\ response' = "ok"
    /\ UNCHANGED <<distribution, pc, method, distr, warm, map, array, avl, i,
                   c, key, guess, result, records, times, env, probe, passes, global_i>>

\* the index of the warm-up build (mapp, aavl, arr)
warm_index(m, data) ==
    CASE m = "hashtable" -> hash_build(data, Len(data))
      [] m = "avl" -> avl_build(data, Len(data))
      [] OTHER -> slice(sort(slice(data, 0)), 0)

build_index_unsorted(m, data) ==
    CASE m = "hashtable" -> hash_build(data, Len(data))
      [] m = "avl" -> avl_build(data, Len(data))
      [] OTHER -> slice(data, 0)

\* the index of the timed build (map, avl, array)
build_index(m, data) ==
    CASE m = "hashtable" -> hash_build(data, Len(data))
      [] m = "avl" -> avl_build(data, Len(data))
      [] OTHER -> sort(slice(data, 0))

dataset_after_sort_in_place(m, data) ==
    IF m \in {"binarysearch", "trick"} THEN sort(data) ELSE data

\* the global dataset after a build of strategy m: the Map and AVL loops
\* only read dataset[i], and the binarysearch and trick builds sort the copy
\* dataset.slice(0), so no build writes to the global array
dataset_after_build(m, data) == data

\* start of a benchmark handler up to the prev reading of its timed build:
\* the warm-up build and the first clock reading
Trigger(m, d) ==
    /\ served
    /\ pending < MaxPending
    /\ method' = m
    /\ distr' = d
    /\ warm' = warm_index(m, dataset)
    /\ prev' = now
    /\ pc' = "BUILDING"
    /\ response' = "none"
    /\ dataset' = dataset_after_build(m, dataset)
    /\ UNCHANGED <<testset, distribution, map, array, avl, i, c, key,
                   guess, result, records, generated, next, final, setuptime,
                   querytime, tq, tc, env, probe, passes, global_i>>

hashtable_normal == Trigger("hashtable", "normal")

binarysearch_normal == Trigger("binarysearch", "normal")

avl_normal == Trigger("avl", "normal")

trick_normal == Trigger("trick", "normal")

binarysearch_uniform == Trigger("binarysearch", "uniform")

trick_uniform == Trigger("trick", "uniform")

hashtable_uniform == Trigger("hashtable", "uniform")

avl_uniform == Trigger("avl", "uniform")

setup_time_swapped(p, n) == p - n

\* setuptime=next-prev
setup_time(p, n) == n - p

\* the timed build, its next reading and setuptime
TimedBuild ==
    /\ pc = "BUILDING"
    /\ map' = IF method = "hashtable" THEN build_index(method, dataset) ELSE map
    /\ avl' = IF method = "avl" THEN build_index(method, dataset) ELSE avl
    /\ array' = IF method \in {"binarysearch", "trick"}
                THEN build_index(method, dataset) ELSE array
    /\ next' = now
    /\ setuptime' = setup_time(prev, now)
    /\ i' = 0
    /\ pc' = "TIMED"
    /\ dataset' = dataset_after_build(method, dataset)
    /\ UNCHANGED <<testset, distribution, method, distr, warm, c, key, prev,
                   guess, result, records, response, generated, final,
                   querytime, tq, tc, env, probe, passes, global_i>>

\* the prev reading of the query pass, a second reading of the clock after
\* the console.log of the setup time
QueryStart ==
    /\ pc = "TIMED"
    /\ prev' = now
    /\ pc' = "QUERYING"
    /\ UNCHANGED <<dataset, testset, distribution, method, distr, warm, map,
                   array, avl, i, c, key, guess, result, records, response,
                   generated, next, final, setuptime, querytime, tq, tc, env,
                   probe, passes, global_i>>

\* distribution.cdf(...) on the global distribution that no generatenum_normal
\* has set yet throws a TypeError
CdfThrows == method = "trick" /\ distr = "normal" /\ distribution = "undefined"

\* the rank guess of a trick handler for the key t
trick_guess(d, t) ==
    IF d = "normal" THEN guess_normal(num_nor, t) ELSE guess_uniform(num_uni, t)

\* the answer of strategy m for the key t on the index idx
answer(m, d, idx, t) ==
    CASE m = "hashtable" -> hash_lookup(idx, t)
      [] m = "binarysearch" -> binsearch(idx, t)
      [] m = "avl" -> avl_lookup(idx, t)
      [] OTHER -> tricksearch(idx, trick_guess(d, t), t)

\* the lookup of one iteration of the query pass
lookup(m, d, t) ==
    CASE m = "hashtable" -> hash_lookup(map, t)
      [] m = "binarysearch" -> binsearch(array, t)
      [] m = "avl" -> avl_lookup(avl, t)
      [] OTHER -> tricksearch(array, trick_guess(d, t), t)

\* one iteration of the query pass
QueryStep ==
    /\ pc = "QUERYING"
    /\ i < num_of(distr)
    /\ ~CdfThrows
    /\ key' = at(testset, Num(i))
    /\ guess' = IF method = "trick"
                THEN trick_guess(distr, at(testset, Num(i))) ELSE guess
    /\ result' = lookup(method, distr, at(testset, Num(i)))
    /\ i' = i + 1
    /\ qreads' = Append(qreads, i)
    /\ UNCHANGED <<dataset, testset, distribution, pc, method, distr, warm,
                   map, array, avl, c, records, response, times, env,
                   generated, probe, creads, clookups,
                   global_i>>

QueryFaultCaught ==
    /\ pc = "QUERYING"
    /\ i < num_of(distr)
    /\ CdfThrows
    /\ pc' = "REPORTING"
    /\ UNCHANGED <<dataset, testset, distribution, method, distr, warm, map,
                   array, avl, i, c, key, guess, result, records, response,
                   times, env, generated, probe, passes, global_i>>

\* an iteration of the query pass that throws: the handler is left, no
\* record is made and the trigger is not acknowledged
QueryFault ==
    /\ pc = "QUERYING"
    /\ i < num_of(distr)
    /\ CdfThrows
    /\ pc' = "IDLE"
    /\ response' = "error"
    /\ NoLocals
    /\ UNCHANGED <<dataset, testset, distribution, env, generated, probe,
                   global_i>>

\* the control pass exists in the avl and trick handlers only
HasControl(m) == m \in {"avl", "trick"}

query_time_raw(m, p, n, f) == n - p

\* querytime: next-prev-final+next after a control pass, next-prev without
query_time(m, p, n, f) == IF HasControl(m) THEN n - p - f + n ELSE n - p

\* end of the query pass and its next reading; avl and trick_normal reset
\* the loop variable of the query pass (index = 0, i = 0), trick_uniform
\* assigns i = 0 to an undeclared name, which makes it a property of the
\* global object; hashtable and binarysearch compute querytime here
QueryExit ==
    /\ pc = "QUERYING"
    /\ i >= num_of(distr)
    /\ pc' = IF HasControl(method) THEN "CONTROL" ELSE "REPORTING"
    /\ c' = 0
    /\ i' = IF HasControl(method) /\ ~(method = "trick" /\ distr = "uniform")
            THEN 0 ELSE i
    /\ next' = now
    /\ querytime' = IF HasControl(method) THEN querytime
                    ELSE query_time(method, prev, now, final)
    /\ global_i' = IF method = "trick" /\ distr = "uniform"
                   THEN Num(0) ELSE global_i
    /\ UNCHANGED <<dataset, testset, distribution, method, distr, warm, map,
                   array, avl, key, guess, result, records, response, prev,
                   final, setuptime, tq, tc, env, generated, probe, passes>>

\* the count the control loop runs to: trick_uniform tests i < num_nor
control_bound(m, d) ==
    IF m = "trick" /\ d = "uniform" THEN num_nor ELSE num_of(d)

\* the testset index the control loop reads: trick_uniform reads
\* testset[index] with the index the query pass ended on
control_read(m, d) == IF m = "trick" /\ d = "uniform" THEN i ELSE c

\* the index lookups of one iteration of the control loop: the avl handlers
\* call avl.search in the condition of the if, the trick handlers compute
\* the guess only
control_lookups(m) == IF m = "avl" THEN 1 ELSE 0

\* one iteration of the control pass
ControlStep ==
    /\ pc = "CONTROL"
    /\ c < control_bound(method, distr)
    /\ LET t == at(testset, Num(control_read(method, distr)))
       IN  /\ key' = t
           /\ guess' = IF method = "trick" THEN trick_guess(distr, t) ELSE guess
           /\ result' = IF method = "trick" THEN trick_guess(distr, t)
                        ELSE IF Len(avl_search(avl, t)) > 0 THEN Undefined
                        ELSE Num(-1)
    /\ c' = c + 1
    /\ i' = IF method = "trick" /\ distr = "uniform" THEN i ELSE c + 1
    /\ creads' = Append(creads, control_read(method, distr))
    /\ clookups' = clookups + control_lookups(method)
    /\ global_i' = IF method = "trick" /\ distr = "uniform"
                   THEN Num(c + 1) ELSE global_i
    /\ UNCHANGED <<dataset, testset, distribution, pc, method, distr, warm,
                   map, array, avl, records, response, times, env,
                   generated, probe, qreads>>

\* end of the control pass: the final reading and querytime
ControlExit ==
    /\ pc = "CONTROL"
    /\ c >= control_bound(method, distr)
    /\ final' = now
    /\ querytime' = query_time(method, prev, next, now)
    /\ pc' = "REPORTING"
    /\ UNCHANGED <<dataset, testset, distribution, method, distr, warm, map,
                   array, avl, i, c, key, guess, result, records, response,
                   prev, next, setuptime, tq, tc, env, generated, probe, passes, global_i>>

result_record_normal(m, d, qt, st) ==
    [method |-> m, distribution |-> "normal", num |-> num_nor,
     prop |-> <<"mean", mean, "variance", variance>>,
     querytime |-> qt, setuptime |-> st]

\* the record obj of a handler (obj.size, a memory reading, is left out)
result_record(m, d, qt, st) ==
    [method |-> m, distribution |-> d, num |-> num_of(d),
     prop |-> IF d = "normal"
              THEN <<"mean", mean, "variance", variance>>
              ELSE <<"low", low, "high", high>>,
     querytime |-> qt, setuptime |-> st]

\* new mongo.Result(obj) and data.save(): the write is handed to the sink
\* and the handler goes on without waiting for it
Report ==
    /\ pc = "REPORTING"
    /\ records' = Append(records,
                         result_record(method, distr, querytime, setuptime))
    /\ pending' = pending + 1
    /\ pc' = "SENDING"
    /\ UNCHANGED <<dataset, testset, distribution, method, distr, warm, map,
                   array, avl, i, c, key, guess, result, response, times,
                   written, now, generated, probe, passes, global_i>>

\* whether res.send('ok') waits for the write: data.save() is not awaited
\* and has no callback
awaits_write_yes == TRUE

awaits_write == FALSE

\* res.send('ok') and the return of the handler
Send ==
    /\ pc = "SENDING"
    /\ awaits_write => pending = 0
    /\ response' = "ok"
    /\ pc' = "IDLE"
    /\ NoLocals
    /\ UNCHANGED <<dataset, testset, distribution, env, generated, probe,
                   global_i>>

\* what the program does when a write is rejected: no callback and no
\* catch is attached to data.save(), so the write is gone
on_rejected_retry(p) == p

on_rejected(p) == p - 1

\* the sink stores a record whose write is in flight: data.save() only
\* queues the write, which is sent and answered in later turns of the event
\* loop, after the synchronous handler has returned
WriteCompletes ==
    /\ pc = "IDLE"
    /\ pending > 0
    /\ pending' = pending - 1
    /\ written' = "stored"
    /\ UNCHANGED <<dataset, testset, distribution, pc, method, distr, warm,
                   map, array, avl, i, c, key, guess, result, records,
                   response, times, now, generated, probe, passes, global_i>>

\* what the process does with the rejected promise of data.save(), which
\* has no handler: the runtime raises it as an uncaught error and the
\* process exits with code 1
after_rejection(p) == "EXITED"

\* the sink rejects a write that is in flight; the rejection reaches the
\* process when no handler runs
WriteFails ==
    /\ pc = "IDLE"
    /\ pending > 0
    /\ pending' = on_rejected(pending)
    /\ written' = "failed"
    /\ pc' = after_rejection(pc)
    /\ UNCHANGED <<dataset, testset, distribution, method, distr, warm,
                   map, array, avl, i, c, key, guess, result, records,
                   response, times, now, generated, probe, passes, global_i>>

\* the clock advances; tq and tc count the advances during the query pass
\* and during the control pass of the running handler
Tick ==
    /\ now < MaxClock
    /\ now' = now + 1
    /\ tq' = IF pc = "QUERYING" THEN tq + 1 ELSE tq
    /\ tc' = IF pc = "CONTROL" THEN tc + 1 ELSE tc
    /\ UNCHANGED <<dataset, testset, distribution, pc, method, distr, warm,
                   map, array, avl, i, c, key, guess, result, records,
                   response, prev, next, final, setuptime, querytime,
                   pending, written, generated, probe, passes, global_i>>

Next ==
    \/ generatenum_normal
    \/ generatenum_uniform
    \/ hashtable_normal
    \/ binarysearch_normal
    \/ avl_normal
    \/ trick_normal
    \/ binarysearch_uniform
    \/ trick_uniform
    \/ hashtable_uniform
    \/ avl_uniform
    \/ TimedBuild
    \/ QueryStart
    \/ QueryStep
    \/ QueryFault
    \/ QueryExit
    \/ ControlStep
    \/ ControlExit
    \/ Report
    \/ Send
    \/ WriteCompletes
    \/ WriteFails

\* the handlers and the sink; the clock stands still
Spec == Init /\ [][Next]_vars

(***************************************************************************)
(* The handlers, the sink and the clock.  No handler branches on a clock   *)
(* reading, so Spec, where the clock stands still, has every behaviour of  *)
(* SpecClock but for the values of the readings.                           *)
(***************************************************************************)
NextClock ==
    \/ Next
    \/ Tick

SpecClock == Init /\ [][NextClock]_vars

(***************************************************************************)
(* Properties of the handler-level specification.                          *)
(***************************************************************************)

\* C8: a benchmark handler that runs before any generate handler raises no
\* fault: each lookup of its query pass reports not found, a record is
\* emitted and the trigger is answered 'ok'.
C8_EmptyRunSucceeds ==
    (generated = "none")
        => /\ response # "error"
           /\ (pc = "QUERYING" /\ i > 0) => result \in NotFoundOutcomes
           /\ (pc = "SENDING") => Len(records) = 1
           /\ (pc = "IDLE") => response \in {"none", "ok"}

\* C10: in a trick_normal run over a population of generatenum_normal, the
\* guess for the key mean = 0 is floor(num_nor / 2), and tricksearch from it
\* returns an index holding 0 whenever 0 occurs in the sorted array.
C10_MedianGuessFinds ==
    (/\ pc = "QUERYING" /\ method = "trick" /\ distr = "normal"
     /\ generated = "normal" /\ i > 0 /\ key = Num(mean))
        => /\ guess = Num(num_nor \div 2)
           /\ (mean \in Range(array))
                => (IsIndexOf(result, array) /\ at(array, result) = key)

\* the index the query pass of strategy m uses
timed_index(m) ==
    CASE m = "hashtable" -> map
      [] m = "avl" -> avl
      [] OTHER -> array

\* keys a lookup can be asked for: values inside and outside of the
\* population, and the undefined of a read past the end of the testset
AnyKey == {Num(k) : k \in Keys} \cup {Undefined}

\* a handler is past its timed build
Built == pc \in {"TIMED", "QUERYING", "CONTROL", "REPORTING", "SENDING"}

\* the answer the population alone fixes for a Map lookup of the key t: the
\* last position that holds t, or -1
hash_reference(data, t) ==
    IF IsNum(t) /\ Positions(data, t[2]) # {}
    THEN Num(Max(Positions(data, t[2]))) ELSE Num(-1)

\* the positions the population alone fixes for an AVL search of the key t
avl_reference(data, t) == IF IsNum(t) THEN Positions(data, t[2]) ELSE {}

\* s is the ascending arrangement of the entries of data
IsSortedArrangement(s, data) ==
    /\ IsSorted(s)
    /\ Len(s) = Len(data)
    /\ \A v \in Range(data) \cup Range(s) :
           occurrences(s, v) = occurrences(data, v)

\* C11: in every benchmark run the index of the warm-up build and the index
\* of the timed build, which the query pass uses, give the same answer for
\* every key, for each of the four strategies, because each of the two is
\* the index that the population alone fixes: the Map answers with the last
\* position of the key, the AVL tree with all its positions, each once, and
\* the sorted array is the ascending arrangement of the population.
C11_RebuildSameAnswers ==
    (Built /\ ~CdfThrows)
        => /\ \A t \in AnyKey :
                  answer(method, distr, warm, t) = lookup(method, distr, t)
           /\ (method = "hashtable")
                => \A t \in AnyKey :
                       /\ hash_lookup(warm, t) = hash_reference(dataset, t)
                       /\ hash_lookup(map, t) = hash_reference(dataset, t)
           /\ (method = "avl")
                => \A t \in AnyKey :
                       /\ Range(avl_search(warm, t)) = avl_reference(dataset, t)
                       /\ Range(avl_search(avl, t)) = avl_reference(dataset, t)
                       /\ Len(avl_search(warm, t))
                            = Cardinality(avl_reference(dataset, t))
                       /\ Len(avl_search(avl, t))
                            = Cardinality(avl_reference(dataset, t))
           /\ (method \in {"binarysearch", "trick"})
                => /\ IsSortedArrangement(warm, dataset)
                   /\ IsSortedArrangement(array, dataset)

\* C11 witness: a binarysearch run over an unsorted population whose query
\* pass has found a key.
C11_Witness ==
    /\ pc = "QUERYING"
    /\ method = "binarysearch"
    /\ ~IsSorted(dataset)
    /\ i > 0
    /\ IsIndexOf(result, array)
    /\ warm = array

\* the phase of a run: the readings around the timed build belong to
\* BUILDING, the control pass to QUERYING, the send of the acknowledgement
\* to REPORTING
phase(p) ==
    CASE p = "TIMED" -> "BUILDING"
      [] p = "CONTROL" -> "QUERYING"
      [] p = "SENDING" -> "REPORTING"
      [] OTHER -> p

PhaseOrder ==
    {<<"IDLE", "BUILDING">>, <<"BUILDING", "QUERYING">>,
     <<"QUERYING", "REPORTING">>, <<"REPORTING", "IDLE">>}

\* C12: every run passes through IDLE, BUILDING, QUERYING, REPORTING, IDLE
\* in this order: a lookup is made only in QUERYING, after the timed build;
\* the record is created only in REPORTING, after the query and control
\* passes; and a run goes back to IDLE only from REPORTING, with 'ok'.
C12_PhaseOrder ==
    [][/\ phase(pc') # phase(pc) => <<phase(pc), phase(pc')>> \in PhaseOrder
       /\ (i' = i + 1 /\ pc = "QUERYING") => pc' = "QUERYING"
       /\ (records' # records /\ records' # <<>>)
            => /\ pc = "REPORTING"
               /\ i >= num_of(distr)
               /\ HasControl(method) => c >= control_bound(method, distr)
       /\ (pc # "IDLE" /\ pc' = "IDLE") => response' = "ok"]_vars

\* C13: the querytime of the emitted record is, for avl and trick runs,
\* (next - prev) - (final - next), the duration of the timed query pass
\* minus the duration of the control pass; for hashtable and binarysearch
\* runs it is next - prev, the duration of the timed query pass alone.
C13_QueryTime ==
    (pc = "SENDING")
        => /\ next - prev = tq
           /\ HasControl(method)
                => /\ final - next = tc
                   /\ records[1].querytime = (next - prev) - (final - next)
           /\ ~HasControl(method) => records[1].querytime = next - prev

\* C13 witness: an avl run whose query pass and whose control pass each
\* lasted one advance of the clock.
C13_Witness ==
    /\ pc = "SENDING"
    /\ method = "avl"
    /\ tq = 1
    /\ tc = 1
    /\ records[1].querytime = 0
    /\ final - prev = 2

\* C14: a run has emitted no record before its report and exactly one when
\* it is about to be acknowledged; the record names the strategy and the
\* distribution of the trigger, its num is the configured count of that
\* distribution and its prop holds mean and variance for normal, low and
\* high for uniform.
C14_OneRecordPerRun ==
    /\ (pc \in {"IDLE", "BUILDING", "TIMED", "QUERYING", "CONTROL",
                "REPORTING", "EXITED"})
            => records = <<>>
    /\ (pc = "SENDING")
            => /\ Len(records) = 1
               /\ method \in Methods
               /\ distr \in Distributions
               /\ records[1].method = method
               /\ records[1].distribution = distr
               /\ (distr = "normal")
                    => /\ records[1].num = num_nor
                       /\ records[1].prop = <<"mean", mean, "variance", variance>>
               /\ (distr = "uniform")
                    => /\ records[1].num = num_uni
                       /\ records[1].prop = <<"low", low, "high", high>>

\* C14 witness: a trick_uniform run has emitted its record.
C14_Witness ==
    /\ pc = "SENDING"
    /\ method = "trick"
    /\ distr = "uniform"
    /\ records[1].num = num_uni
    /\ records[1].distribution = "uniform"
    /\ pending = 1

\* C15: after any sequence of generate triggers the dataset and the testset
\* have equal length, and after a generate trigger both hold exactly the
\* configured count of its distribution, whatever they held before.
C15_GenerateReplaces ==
    /\ Len(dataset) = Len(testset)
    /\ (generated = "none") => Len(dataset) = 0
    /\ (generated = "normal")
            => (Len(dataset) = num_nor /\ Len(testset) = num_nor)
    /\ (generated = "uniform")
            => (Len(dataset) = num_uni /\ Len(testset) = num_uni)

\* C15 witness: a generatenum_uniform after a generatenum_normal (which
\* alone sets the global distribution) has replaced num_nor values by
\* num_uni values.
C15_Witness ==
    /\ pc = "IDLE"
    /\ generated = "uniform"
    /\ distribution = "gaussian"
    /\ response = "ok"
    /\ Len(dataset) = num_uni
    /\ dataset # testset

\* C16 as claimed: the write and the acknowledgement are not ordered: once
\* data.save() has been called, res.send('ok') can be the next step, and
\* while the write is in flight the sink can also end it before the
\* acknowledgement is sent.
C16_AckNotOrdered ==
    (pc = "SENDING")
        => /\ ENABLED Send
           /\ (pending > 0) => ENABLED WriteCompletes

\* C16 amended: the acknowledgement does not wait for the write, and it
\* always comes first: when res.send('ok') is about to run the write of the
\* run is still in flight, the step from there is the acknowledgement and
\* leaves the write in flight, and a write ends only while no handler runs.
C16_AckBeforeWrite ==
    /\ []((pc = "SENDING") => (pending > 0 /\ ENABLED Send))
    /\ [][/\ (pc = "SENDING" /\ pc' # pc)
               => (pc' = "IDLE" /\ response' = "ok" /\ pending' = pending)
          /\ (pending' < pending) => (pc = "IDLE" /\ records = <<>>)]_vars

\* C16 witness: the run has been acknowledged with 'ok' and has returned
\* while its write is still in flight and no write has ended yet.
C16_Witness ==
    /\ pc = "IDLE"
    /\ response = "ok"
    /\ pending = 1
    /\ written = "none"
    /\ ENABLED WriteCompletes

\* what a step of the sink leaves alone: the handlers' state and the data
program == <<dataset, testset, distribution, pc, method, distr, warm, map,
             array, avl, i, c, key, guess, result, records, response,
             generated, times, global_i>>

\* C17: a failed persistence write is dropped without a trace in the
\* program: the step of the failure takes the write out of flight (it is
\* not issued again) and changes nothing of the handlers' state (the run
\* is not run again, no error is answered), and after it later triggers
\* are served as after a write that succeeded.
C17_FailedWriteDropped ==
    /\ []((written = "failed" /\ pending < MaxPending)
            => (ENABLED avl_normal /\ ENABLED generatenum_uniform))
    /\ [][WriteFails => (pending' = pending - 1 /\ UNCHANGED program)]_vars

\* a run between the start of its build and the end of its query pass
MidRun == pc \in {"BUILDING", "TIMED", "QUERYING"}

\* C18 as claimed: the generate handlers are not held back by a running
\* benchmark handler, so while a run is between the start of its build and
\* the end of its query pass a generate trigger can be served and replace
\* the dataset and the testset.
C18_SwapMidRun ==
    MidRun => (ENABLED generatenum_normal \/ ENABLED generatenum_uniform)

\* C18 amended: no generate trigger is served while a benchmark handler
\* runs, and no step taken while a handler runs changes the dataset or the
\* testset: the data a run queries is the data it built its index over.
C18_NoSwapMidRun ==
    /\ []((pc # "IDLE")
            => (~ENABLED generatenum_normal /\ ~ENABLED generatenum_uniform))
    /\ [][(pc # "IDLE") => (dataset' = dataset /\ testset' = testset)]_vars

\* C18 witness: a hashtable run over generated data is in its query pass
\* and no generate trigger can be served.
C18_Witness ==
    /\ pc = "QUERYING"
    /\ method = "hashtable"
    /\ generated = "normal"
    /\ i = 1
    /\ ~ENABLED generatenum_uniform
    /\ ~ENABLED generatenum_normal

(***************************************************************************)
(* The query pass and the control pass of a handler.                       *)
(***************************************************************************)
\* the indices 0 .. Len(s) - 1 of a sequence, in order
indices(s) == [k \in 1..Len(s) |-> k - 1]

\* the query pass of the running handler is over
QueryPassDone == pc \in {"CONTROL", "REPORTING", "SENDING"}

\* C23: in every run on a testset that a generate handler produced, the
\* timed query pass has read each entry of testset exactly once: the indices
\* 0 .. Len(testset) - 1 in order, none skipped and none beyond the end.
C23_QueryPassCoversTestset ==
    (QueryPassDone /\ generated # "none") => qreads = indices(testset)

\* the control pass of the running handler is over
ControlPassDone == pc \in {"REPORTING", "SENDING"} /\ HasControl(method)

\* C24: in every avl and trick run the control pass has made as many
\* iterations as the query pass and has read the same testset entries in
\* the same order.
C24_ControlRepeatsQuery == ControlPassDone => creads = qreads

\* C25: in every avl and trick run the control pass has made no lookup
\* against the built index, neither an avl.search call nor a tricksearch
\* call.
C25_ControlMakesNoLookup == ControlPassDone => clookups = 0

(***************************************************************************)
(* Faults.                                                                 *)
(***************************************************************************)
\* the running handler is at a statement that throws
Faulting == pc = "QUERYING" /\ i < num_of(distr) /\ CdfThrows

\* C26: the step a handler takes from a statement that throws ends the run:
\* the handler is left (no retry), no result record has been made, no write
\* has been handed to the sink, the request is not acknowledged with 'ok',
\* and dataset and testset are as they were.
C26_FaultAbortsRun ==
    [][(Faulting /\ pc' # pc) =>
          /\ pc' = "IDLE"
          /\ method' = "none"
          /\ records' = <<>>
          /\ pending' = pending
          /\ written' = written
          /\ response' # "ok"
          /\ dataset' = dataset
          /\ testset' = testset]_vars

\* a trick_normal run on a uniform population has thrown and has been left
C26_Witness ==
    /\ pc = "IDLE"
    /\ response = "error"
    /\ generated = "uniform"
    /\ Len(dataset) = num_uni
    /\ records = <<>>
    /\ pending = 0

(***************************************************************************)
(* The shared arrays across runs.                                          *)
(***************************************************************************)
\* C28: no step of a benchmark run, from the trigger and its warm-up build
\* to the return of the handler, changes dataset or testset: both hold the
\* same values in the same order after the run as before it.
C28_RunKeepsArrays ==
    [][(pc # "IDLE" \/ pc' # "IDLE")
          => (dataset' = dataset /\ testset' = testset)]_vars

\* C28 witness: a binarysearch run over an unsorted generated population
\* has built its sorted array and is about to return; the population is
\* still in its generated order.
C28_Witness ==
    /\ pc = "SENDING"
    /\ method = "binarysearch"
    /\ generated = "uniform"
    /\ ~IsSorted(dataset)
    /\ IsSorted(array)
    /\ Len(array) = Len(dataset)

\* C29: every emitted record describes the population that was indexed:
\* its distribution names the generate handler that produced the current
\* dataset and its num is the length of that dataset (for a dataset that a
\* generate handler has produced).
C29_RecordDescribesPopulation ==
    (pc = "SENDING" /\ generated # "none")
        => \A k \in 1..Len(records) :
               /\ records[k].distribution = generated
               /\ records[k].num = Len(dataset)

(***************************************************************************)
(* Signs of the reported times under a clock that never goes back.         *)
(***************************************************************************)
\* C30 as claimed: every emitted record has a setuptime and a querytime
\* that are not negative, in all eight handlers.
C30_TimesNotNegative ==
    pc = "SENDING"
        => \A k \in 1..Len(records) :
               records[k].setuptime >= 0 /\ records[k].querytime >= 0

\* C30 amended: every emitted record has a setuptime that is not negative;
\* the querytime of a hashtable or binarysearch record is not negative; the
\* querytime of an avl or trick record is negative exactly when the control
\* pass lasted longer than the query pass, and is never below minus the
\* duration of the control pass.
C30_TimesSigns ==
    pc = "SENDING"
        => \A k \in 1..Len(records) :
               /\ records[k].setuptime >= 0
               /\ ~HasControl(method) => records[k].querytime >= 0
               /\ HasControl(method)
                    => /\ (records[k].querytime < 0) <=> (tc > tq)
                       /\ records[k].querytime >= -(final - next)

\* C30 witness: a trick run whose query pass took no advance of the clock
\* and whose control pass took one reports a querytime of -1.
C30_Witness ==
    /\ pc = "SENDING"
    /\ method = "trick"
    /\ tq = 0
    /\ tc = 1
    /\ records[1].querytime = -1
    /\ records[1].setuptime >= 0

====
